---- MODULE Spec2Model ----
(***************************************************************************)
(* The room relay of the websocket server: the handshake middleware, the   *)
(* joinRoom / message / leaveRoom / disconnect handlers, the presence map  *)
(* activeUsers and the per-socket rate limiter, as written in the most     *)
(* complete variant of the server (src/unnamed/part_001).                  *)
(*                                                                         *)
(* Node runs every handler to its next await without interleaving, so one  *)
(* action is the synchronous stretch of a handler: from the event to the   *)
(* outbound call, and from the answer of the call to the handler's end.    *)
(***************************************************************************)
EXTENDS Naturals, Sequences, FiniteSets

\* ------------------------------------------------------------------ bounds

\* where the claims are about the relay and the presence map (Spec):
\* handlers that may be awaiting an outbound call at the same time ...
MaxPending == 2
\* ... and consumed points a limiter entry is followed up to within one window
RelayConsumed == 1

\* where the claims are about the quota (SpecRate): the same two
RatePending == 1
MaxConsumed == 6

\* where the claims are about the sanitization (SpecSanitize): the longest
\* content sent
MaxLen == 4

\* ------------------------------------------------------- program constants

\* rateLimiter: points
Points == 5

Conns == {"s1", "s2"}
Users == {"a", "b"}
Rooms == {"lobby", "den"}

\* what a transport presents as socket.handshake.auth.token
Tokens == {"none", "forged", "tokA", "tokB"}

\* the notices sent with socket.emit("error", ...)
AccessDenied == "Access Denied: You are not a member of this room."
ServerError == "Failed to join room due to a server error."
RateLimited == "Rate limit exceeded. Please slow down."

\* the shapes of a message payload that the handler tells apart: a string
\* content with a user.username, an empty or missing content, a missing
\* user.username, no payload at all, a content that is truthy but no string
Shapes == {"ok", "noContent", "noUser", "absent", "notString"}

\* what the membership query and the persistence call may come back with
JoinAnswers == {"member", "notMember", "error"}
PersistAnswers == {"ok", "notOk", "throw", "badJson"}

VARIABLES
    status,       \* per transport: "new", "refused", "live" or "closed"
    username,     \* socket.data.username, "none" until the handshake sets it
    rooms,        \* the rooms each socket is joined to (socket.join / leave)
    activeUsers,  \* room -> set of usernames; a missing key is a missing entry
    limiter,      \* rate limiter: key -> points consumed in the current window
    pending,      \* handlers awaiting their outbound call, in the order issued
    token,        \* socket.handshake.auth.token as presented, "-" before that
    wellFormed,   \* per socket: well-formed messages sent in the current window
    granted,      \* per socket: the rooms a joinRoom of it went through for
    lastOp,       \* the handler step taken last
    emitted,      \* the events that step delivered: who received what
    content       \* a content under sanitization: as sent, as it stands now,
                  \* and how often the sanitization has run over it

vars == <<status, username, rooms, activeUsers, limiter, pending, token, wellFormed, granted,
          lastOp, emitted, content>>

\* ----------------------------------------------------------------- helpers

\* jwt.verify(token, JWT_SECRET): the username claim, or "invalid" when it throws
Verify(tok) ==
    CASE tok = "tokA" -> "a"
      [] tok = "tokB" -> "b"
      [] OTHER -> "invalid"

NoOp == [op |-> "init", sock |-> "-", res |-> "-"]

Op(o, c, x) == [op |-> o, sock |-> c, res |-> x]

Event(e, c, r, u, t) == [ev |-> e, to |-> c, room |-> r, user |-> u, text |-> t]

\* io.emit("error", text): the notice sent to every connected socket
EmitToEveryone(st, c, t) ==
    {Event("error", d, "-", "-", t) : d \in {x \in Conns : st[x] = "live"}}

\* socket.emit(ev, text): reaches the socket's client while it is connected
EmitTo(st, c, t) ==
    IF st[c] = "live" THEN {Event("error", c, "-", "-", t)} ELSE {}

\* io.emit(ev, ...): every connected socket, joined to the room or not
BroadcastToAll(st, rm, r, e, u) ==
    {Event(e, c, r, u, "-") : c \in {x \in Conns : st[x] = "live"}}

\* io.to(roomId).emit(ev, ...): every connected socket joined to the room
Broadcast(st, rm, r, e, u) ==
    {Event(e, c, r, u, "-") : c \in {x \in Conns : st[x] = "live" /\ r \in rm[x]}}

\* const activeUsers = {}
NoRooms == [x \in {} |-> {}]

\* activeUsers[roomId] created when missing, then .add(username)
AddUser(au, r, u) ==
    [x \in (DOMAIN au) \cup {r} |->
        IF x = r THEN (IF r \in DOMAIN au THEN au[r] ELSE {}) \cup {u}
                 ELSE au[x]]

\* the delete without the size check: an emptied entry stays in the map
DeleteUserKeepEntry(au, r, u) ==
    IF r \notin DOMAIN au THEN au
    ELSE [x \in DOMAIN au |-> IF x = r THEN au[r] \ {u} ELSE au[x]]

\* activeUsers[roomId].delete(username), the entry deleted when its size is 0
DeleteUser(au, r, u) ==
    IF r \notin DOMAIN au THEN au
    ELSE [x \in {y \in DOMAIN au : y # r \/ au[r] \ {u} # {}} |->
            IF x = r THEN au[r] \ {u} ELSE au[x]]

\* the disconnect loop: for every roomId in activeUsers, delete the username
CleanupAll(au, u) ==
    [x \in {y \in DOMAIN au : au[y] \ {u} # {}} |-> au[x] \ {u}]

\* one username variable shared by all connections: the identity of the
\* connection whose handler ran last
IdentityOfLastHandler(c) ==
    IF lastOp.sock \in Conns /\ username[lastOp.sock] # "none"
    THEN username[lastOp.sock]
    ELSE username[c]

\* const username = socket.data.username: the identity that the handlers of
\* the socket close over
Identity(c) == username[c]

\* the limiter keyed by the identity, not by the socket
LimiterKeyByUser(c) == username[c]

\* the key rateLimiter.consume is called with: socket.id
LimiterKey(c) == c

Keys == Conns \cup Users

\* the characters of a content that the sanitization tells apart, and those
\* of the entity it writes for '<'
Chars == {"<", ">", "&", "l", "t", ";"}

\* the contents of up to n characters
Strings(n) == UNION {[1..k -> Chars] : k \in 0..n}

\* the replacement strings of the two replace calls
Lt == <<"&", "l", "t", ";">>
Gt == <<"&", "g", "t", ";">>

\* String.prototype.replace with a /g pattern of one character: every
\* occurrence replaced, left to right, the replacement not scanned again
RECURSIVE ReplaceAll(_, _, _)
ReplaceAll(s, ch, with) ==
    IF s = <<>> THEN <<>>
    ELSE (IF Head(s) = ch THEN with ELSE <<Head(s)>>) \o ReplaceAll(Tail(s), ch, with)

\* a sanitization that escapes the ampersand as well, first
SanitizeEscapingAmp(s) ==
    ReplaceAll(ReplaceAll(ReplaceAll(s, "&", <<"&", "a", "m", "p", ";">>),
                          "<", Lt), ">", Gt)

\* content.replace(/</g, "&lt;").replace(/>/g, "&gt;")
Sanitize(s) == ReplaceAll(ReplaceAll(s, "<", Lt), ">", Gt)

\* a content as it arrives in a payload
Content(s) == [raw |-> s, sanitizedContent |-> s, passes |-> 0]

RemoveAt(s, i) == SubSeq(s, 1, i - 1) \o SubSeq(s, i + 1, Len(s))

\* -------------------------------------------------------------------- Init

InitServer ==
    /\ status = [c \in Conns |-> "new"]
    /\ username = [c \in Conns |-> "none"]
    /\ rooms = [c \in Conns |-> {}]
    /\ activeUsers = NoRooms
    /\ limiter = [k \in Keys |-> 0]
    /\ pending = <<>>
    /\ token = [c \in Conns |-> "-"]
    /\ wellFormed = [c \in Conns |-> 0]
    /\ granted = [c \in Conns |-> {}]
    /\ lastOp = NoOp
    /\ emitted = {}

\* no content is under sanitization
Init == InitServer /\ content = Content(<<>>)

\* ----------------------------------------------------------------- actions

\* the middleware without its catch: only a missing token is refused
AuthenticatedUnverified(tok) == tok # "none"

\* io.use: a missing token and a token jwt.verify rejects both end in next(error)
Authenticated(tok) == tok # "none" /\ Verify(tok) # "invalid"

\* a transport connects and presents its credential; the connection handler
\* registers the socket's handlers only when the middleware called next()
Handshake(c, tok) ==
    /\ status[c] = "new"
    /\ token' = [token EXCEPT ![c] = tok]
    /\ IF Authenticated(tok)
       THEN /\ status' = [status EXCEPT ![c] = "live"]
            /\ username' = [username EXCEPT ![c] = Verify(tok)]
            /\ lastOp' = Op("handshake", c, "accepted")
       ELSE /\ status' = [status EXCEPT ![c] = "refused"]
            /\ username' = username
            /\ lastOp' = Op("handshake", c, "refused")
    /\ emitted' = {}
    /\ UNCHANGED content
    /\ UNCHANGED <<granted, rooms, activeUsers, limiter, pending, wellFormed>>

\* socket.on("joinRoom"), up to the await of the membership query
JoinRoom(maxPend, c, r) ==
    /\ status[c] = "live"
    /\ Len(pending) < maxPend
    /\ pending' = Append(pending, [kind |-> "join", sock |-> c, roomId |-> r,
                                   user |-> Identity(c)])
    /\ lastOp' = Op("joinRoom", c, "queried")
    /\ emitted' = {}
    /\ UNCHANGED content
    /\ UNCHANGED <<granted, status, username, rooms, activeUsers, limiter,
                   token, wellFormed>>

\* the join without the membership test: every answered query goes on
JoinGrantedUnchecked(ans) == ans # "error"

\* the join failing open: a rejected query goes on as a membership row does
JoinGrantedOnError(ans) == ans # "notMember"

\* the join goes on only for a membership row: no row returns after the
\* access-denied notice, a rejected query lands in the catch block
JoinGranted(ans) == ans = "member"

\* the notice of a join that does not go on
JoinNotice(ans) == IF ans = "notMember" THEN AccessDenied ELSE ServerError

\* socket.on("joinRoom"), from the answer of the membership query to the end
JoinAnswer(i, ans) ==
    /\ i \in 1..Len(pending)
    /\ pending[i].kind = "join"
    /\ LET c == pending[i].sock
           r == pending[i].roomId
       IN  /\ IF JoinGranted(ans)
              THEN /\ rooms' = [rooms EXCEPT ![c] = @ \cup {r}]
                   /\ granted' = [granted EXCEPT ![c] = @ \cup {r}]
                   /\ activeUsers' = AddUser(activeUsers, r, Identity(c))
                   /\ emitted' = Broadcast(status, rooms', r, "userJoined", Identity(c))
              ELSE /\ emitted' = EmitTo(status, c, JoinNotice(ans))
                   /\ UNCHANGED <<rooms, activeUsers, granted>>
           /\ lastOp' = Op("joinAnswer", c, ans)
    /\ pending' = RemoveAt(pending, i)
    /\ UNCHANGED content
    /\ UNCHANGED <<status, username, limiter, token, wellFormed>>

\* const { roomId, content, user, ... } = messageData: throws on no payload
Destructures(shape) == shape # "absent"

\* if (!content || !user?.username) return
Malformed(shape) == shape \in {"noContent", "noUser"}

\* rateLimiter.consume resolves while the consumed points are within the quota
WithinQuota(consumed) == consumed <= Points

\* content.replace(...) is a call only when content is a string
Sanitizable(shape) == shape # "notString"

\* the limiter asked before the payload is validated
ConsumesBeforeValidation(shape) == Destructures(shape)

\* rateLimiter.consume is reached past the destructuring and the validation
Consumes(shape) == Destructures(shape) /\ ~Malformed(shape)

\* how the handler goes, in the order of its statements: the destructuring,
\* the validation, the limiter, the sanitization, the persistence call; a
\* throw outside the two try blocks rejects the promise of the async handler,
\* which nothing catches
Outcome(shape, consumed) ==
    IF ~Destructures(shape) THEN "unhandled"
    ELSE IF Malformed(shape) THEN "malformed"
    ELSE IF ~WithinQuota(consumed) THEN "rateLimited"
    ELSE IF ~Sanitizable(shape) THEN "unhandled"
    ELSE "admitted"

\* socket.on("message"), up to the await of the persistence call: validation,
\* rateLimiter.consume (which counts the point before it decides), the fetch
Message(cap, maxPend, c, r, shape) ==
    /\ status[c] = "live"
    /\ LET k == LimiterKey(c)
           consumed == IF Consumes(shape) THEN limiter[k] + 1 ELSE limiter[k]
           outcome == Outcome(shape, consumed)
       IN  /\ consumed <= cap
           /\ limiter' = [limiter EXCEPT ![k] = consumed]
           /\ wellFormed' = IF Consumes(shape)
                            THEN [wellFormed EXCEPT ![c] = @ + 1]
                            ELSE wellFormed
           /\ IF outcome = "admitted"
              THEN /\ Len(pending) < maxPend
                   /\ pending' = Append(pending,
                          [kind |-> "msg", sock |-> c, roomId |-> r])
              ELSE pending' = pending
           /\ emitted' = IF outcome = "rateLimited"
                         THEN EmitTo(status, c, RateLimited)
                         ELSE {}
           /\ lastOp' = Op("message", c, outcome)
    /\ UNCHANGED content
    /\ UNCHANGED <<granted, status, username, rooms, activeUsers, token>>

\* the broadcast without the response.ok check
PersistBroadcastsAnyStatus(resp) == resp \in {"ok", "notOk"}

\* the message is broadcast only past the response.ok check with a body that
\* parses; a rejected fetch or response.json() lands in the catch block
PersistBroadcasts(resp) == resp = "ok"

\* socket.on("message"), from the answer of the persistence call to the end
PersistAnswer(i, resp) ==
    /\ i \in 1..Len(pending)
    /\ pending[i].kind = "msg"
    /\ LET c == pending[i].sock
           r == pending[i].roomId
       IN  /\ emitted' = IF PersistBroadcasts(resp)
                         THEN Broadcast(status, rooms, r, "message", c)
                         ELSE {}
           /\ lastOp' = Op("persistAnswer", c, resp)
    /\ pending' = RemoveAt(pending, i)
    /\ UNCHANGED content
    /\ UNCHANGED <<granted, status, username, rooms, activeUsers, limiter,
                   token, wellFormed>>

\* socket.on("leaveRoom")
LeaveRoom(c, r) ==
    /\ status[c] = "live"
    /\ rooms' = [rooms EXCEPT ![c] = @ \ {r}]
    /\ IF r \in DOMAIN activeUsers
       THEN /\ activeUsers' = DeleteUser(activeUsers, r, Identity(c))
            /\ emitted' = Broadcast(status, rooms', r, "userLeft", Identity(c))
       ELSE /\ activeUsers' = activeUsers
            /\ emitted' = {}
    /\ lastOp' = Op("leaveRoom", c, "left")
    /\ UNCHANGED content
    /\ UNCHANGED <<granted, status, username, limiter, pending, token,
                   wellFormed>>

\* the transport closes: socket.io takes the socket out of its rooms, then
\* socket.on("disconnect") runs
Disconnect(c) ==
    /\ status[c] = "live"
    /\ status' = [status EXCEPT ![c] = "closed"]
    /\ rooms' = [rooms EXCEPT ![c] = {}]
    /\ activeUsers' = CleanupAll(activeUsers, Identity(c))
    /\ emitted' = {}
    /\ lastOp' = Op("disconnect", c, "closed")
    /\ UNCHANGED content
    /\ UNCHANGED <<granted, username, limiter, pending, token, wellFormed>>

\* duration: the window of a limiter entry ends and the entry is dropped
Expire(k) ==
    /\ limiter[k] > 0
    /\ limiter' = [limiter EXCEPT ![k] = 0]
    /\ wellFormed' = [c \in Conns |-> IF LimiterKey(c) = k THEN 0 ELSE wellFormed[c]]
    /\ lastOp' = Op("expire", "-", "-")
    /\ emitted' = {}
    /\ UNCHANGED content
    /\ UNCHANGED <<granted, status, username, rooms, activeUsers, pending, token>>

\* the steps of the server when clients name rooms of RR only, present
\* tokens of TT only, a limiter entry is followed up to cap consumed points
\* and up to maxPend handlers await an outbound call at the same time
Step(RR, TT, cap, maxPend) ==
    \/ \E c \in Conns, tok \in TT : Handshake(c, tok)
    \/ \E c \in Conns, r \in RR : JoinRoom(maxPend, c, r)
    \/ \E i \in 1..maxPend, ans \in JoinAnswers : JoinAnswer(i, ans)
    \/ \E c \in Conns, r \in RR, shape \in Shapes :
          Message(cap, maxPend, c, r, shape)
    \/ \E i \in 1..maxPend, resp \in PersistAnswers : PersistAnswer(i, resp)
    \/ \E c \in Conns, r \in RR : LeaveRoom(c, r)
    \/ \E c \in Conns : Disconnect(c)
    \/ \E k \in Keys : Expire(k)

\* the rooms the clients name in their events
Lobby == {"lobby"}

\* the relay and the presence map: every kind of token, both identities
Next == Step(Lobby, Tokens, RelayConsumed, MaxPending)

Spec == Init /\ [][Next]_vars

\* the limiter drops an entry with a timer of its own, which the event loop
\* runs; nothing in the server makes the external service answer
FairSpec == Spec /\ WF_vars(\E k \in Keys : Expire(k))

\* the tokens of the clients of SpecRate: none, or one for identity a
RateTokens == {"none", "tokA"}

\* the quota: limiter entries followed past the quota, every connection
\* bound to the same identity
NextRate == Step(Lobby, RateTokens, MaxConsumed, RatePending)

SpecRate == Init /\ [][NextRate]_vars

\* a content of up to MaxLen characters arrives
InitSanitize == InitServer /\ content \in {Content(s) : s \in Strings(MaxLen)}

\* the sanitization of the message handler runs over the content, and once
\* more over its own result
SanitizeContent ==
    /\ content.passes < 2
    /\ content' = [content EXCEPT !.sanitizedContent = Sanitize(@),
                                  !.passes = @ + 1]
    /\ UNCHANGED <<status, username, rooms, activeUsers, limiter, pending,
                   token, wellFormed, granted, lastOp, emitted>>

NextSanitize == SanitizeContent

SpecSanitize == InitSanitize /\ [][NextSanitize]_vars

\* ------------------------------------------------------------------ claims

MessageEvents(es) == {e \in es : e.ev = "message"}

Live(c) == status[c] = "live"

\* C1: a 'message' event is broadcast only by the step that takes the answer
\* "ok" of the persistence call made for that message, and names that call's
\* sender and room; a call answered with a non-success status, a rejected
\* fetch or an unreadable body ends with no event at all, and being done with
\* it can bring none later.
C1_NoMessageWithoutPersistence ==
    [][ /\ MessageEvents(emitted') # {} =>
             \E i \in 1..Len(pending) :
                /\ pending[i].kind = "msg"
                /\ pending' = RemoveAt(pending, i)
                /\ lastOp' = Op("persistAnswer", pending[i].sock, "ok")
                /\ \A e \in emitted' :
                      /\ e.ev = "message"
                      /\ e.user = pending[i].sock
                      /\ e.room = pending[i].roomId
        /\ (lastOp'.op = "persistAnswer" /\ lastOp'.res # "ok") =>
             /\ emitted' = {}
             /\ Len(pending') = Len(pending) - 1
      ]_vars

\* a persisted message has been broadcast to two connections
C1_Witness ==
    /\ lastOp.op = "persistAnswer" /\ lastOp.res = "ok"
    /\ Cardinality(MessageEvents(emitted)) = 2

\* C3: of the well-formed messages a connection sends within one window the
\* first Points (5) are admitted and every later one, the 6th first, is
\* rejected with the rate-limit notice to the sender alone; only the
\* connection's own messages count.
C3_RateLimit ==
    lastOp.op = "message" =>
        /\ lastOp.res = "admitted" => wellFormed[lastOp.sock] <= Points
        /\ lastOp.res = "rateLimited" =>
             /\ wellFormed[lastOp.sock] > Points
             /\ emitted = {Event("error", lastOp.sock, "-", "-", RateLimited)}
        /\ lastOp.res \in {"admitted", "rateLimited"} => wellFormed[lastOp.sock] > 0

\* the 6th message of s1 is rejected while s2, bound to the same identity,
\* has had messages of its own admitted in its window
C3_Witness ==
    /\ lastOp = Op("message", "s1", "rateLimited")
    /\ wellFormed["s1"] = Points + 1
    /\ username["s2"] = username["s1"]
    /\ wellFormed["s2"] \in 1..Points

Refused(c) == token[c] # "-" /\ (token[c] = "none" \/ Verify(token[c]) = "invalid")

\* C4: a transport that presented no credential, or one that fails
\* verification, is refused and stays so: no handler step is ever taken for
\* it, it holds no room, no limiter entry and no outbound call, it receives
\* no event, and the step that refuses it changes nothing else.
C4_AuthenticationGate ==
    [][ \A c \in Conns : Refused(c)' =>
          /\ status'[c] = "refused"
          /\ username'[c] = "none"
          /\ rooms'[c] = {}
          /\ limiter'[c] = 0
          /\ \A i \in 1..Len(pending') : pending'[i].sock # c
          /\ \A e \in emitted' : e.to # c /\ e.user # c
          /\ lastOp'.sock = c =>
                /\ lastOp' = Op("handshake", c, "refused")
                /\ UNCHANGED <<rooms, activeUsers, limiter, pending>>
                /\ emitted' = {}
      ]_vars

\* s1 came with a forged token and was refused; s2 has since joined a room
C4_Witness ==
    /\ token["s1"] = "forged" /\ status["s1"] = "refused"
    /\ Live("s2") /\ "lobby" \in rooms["s2"]

\* C5: when the membership query answers 'not a member', the requester alone
\* gets the access-denied notice, it is not joined, no presence set changes
\* and nobody gets a 'userJoined'.
C5_JoinDenied ==
    [][ (lastOp'.op = "joinAnswer" /\ lastOp'.res = "notMember") =>
          /\ rooms' = rooms
          /\ activeUsers' = activeUsers
          /\ emitted' = IF Live(lastOp'.sock)
                        THEN {Event("error", lastOp'.sock, "-", "-", AccessDenied)}
                        ELSE {}
      ]_vars

\* s1 was denied while s2 sits in the room: s1 alone got the notice
C5_Witness ==
    /\ lastOp = Op("joinAnswer", "s1", "notMember")
    /\ emitted = {Event("error", "s1", "-", "-", AccessDenied)}
    /\ "lobby" \notin rooms["s1"]
    /\ Live("s2") /\ "lobby" \in rooms["s2"]

\* C6: when the membership query fails, the connection is not joined, no
\* presence set changes, nobody gets a 'userJoined', and the requester gets
\* the server-error notice, whose text is not that of the access-denied one.
C6_JoinFailsClosed ==
    [][ (lastOp'.op = "joinAnswer" /\ lastOp'.res = "error") =>
          /\ rooms' = rooms
          /\ activeUsers' = activeUsers
          /\ emitted' = IF Live(lastOp'.sock)
                        THEN {Event("error", lastOp'.sock, "-", "-", ServerError)}
                        ELSE {}
          /\ \A e \in emitted' : e.text # AccessDenied
      ]_vars

\* the query of s1 failed while s2 sits in the room: s1 alone got the notice
C6_Witness ==
    /\ lastOp = Op("joinAnswer", "s1", "error")
    /\ emitted = {Event("error", "s1", "-", "-", ServerError)}
    /\ "lobby" \notin rooms["s1"]
    /\ Live("s2") /\ "lobby" \in rooms["s2"]

Present(r, u) == r \in DOMAIN activeUsers /\ u \in activeUsers[r]

\* C2: an identity is in the presence set of a room exactly while a live
\* connection bound to it has the room joined; so when two connections of
\* one identity have joined the room and one of them leaves or disconnects,
\* the identity stays in the room's presence set.
C2_SharedIdentityStaysPresent ==
    [][ \A c \in Conns, d \in Conns, r \in Rooms :
          ( /\ c # d
            /\ Live(c) /\ Live(d)
            /\ username[c] = username[d]
            /\ r \in rooms[c] /\ r \in rooms[d]
            /\ lastOp'.sock = c
            /\ lastOp'.op \in {"leaveRoom", "disconnect"} )
          => Present(r, username[d])'
      ]_vars

\* C7: a connection's message handler does not start while the persistence
\* call of an earlier message of that connection is outstanding (which is
\* what keeps the broadcasts of one connection in the order it sent them):
\* no two message handlers of one connection await their answer at once.
C7_PerConnectionOrder ==
    \A i \in 1..Len(pending), j \in 1..Len(pending) :
        (i < j /\ pending[i].kind = "msg" /\ pending[j].kind = "msg")
        => pending[i].sock # pending[j].sock

\* C8: a 'message' event reaches the members of a room only when a joinRoom
\* of the sending connection for that room went through before.
C8_JoinGatesMessages ==
    \A e \in MessageEvents(emitted) : e.room \in granted[e.user]

\* C9: when a connection that has joined a room disconnects, every other
\* connection still joined to the room receives a 'userLeft' naming the
\* identity of the connection that went.
C9_LeaveNoticeOnDisconnect ==
    [][ \A c \in Conns :
          (Live(c) /\ lastOp' = Op("disconnect", c, "closed")) =>
             \A r \in rooms[c], d \in Conns :
                (d # c /\ Live(d) /\ r \in rooms[d]) =>
                   Event("userLeft", d, r, username[c], "-") \in emitted'
      ]_vars

\* C11: every room key of the presence map maps to a non-empty set of
\* identities, whatever joins, leaves and disconnects came before.
C11_NoEmptyRoomEntries ==
    \A r \in DOMAIN activeUsers : activeUsers[r] # {}

\* s1 has left the room it had joined alone: the room's entry is gone
C11_Witness ==
    /\ lastOp = Op("leaveRoom", "s1", "left")
    /\ "lobby" \in granted["s1"]
    /\ "lobby" \notin DOMAIN activeUsers
    /\ Live("s2") /\ "lobby" \notin granted["s2"]

\* C12: no message or joinRoom event, whatever its payload and outcome, ends
\* its handler with an unhandled failure, closes the connection or changes
\* the rooms it is joined to (short of the join that went through).
C12_ErrorsStayLocal ==
    [][ lastOp'.op \in {"message", "persistAnswer", "joinRoom", "joinAnswer"} =>
          /\ lastOp'.res # "unhandled"
          /\ status' = status
          /\ lastOp'.res # "member" => rooms' = rooms
      ]_vars

Markup(s) == {i \in 1..Len(s) : s[i] \in {"<", ">"}}

\* C13: sanitizing a content twice gives what sanitizing it once gives; the
\* sanitized content holds no '<' and no '>'; a content without these two,
\* such as '&lt;' or '&', comes out as it went in.
C13_SanitizeIdempotent ==
    content.passes >= 1 =>
        /\ content.sanitizedContent = Sanitize(content.raw)
        /\ Markup(content.sanitizedContent) = {}
        /\ Markup(content.raw) = {} => content.sanitizedContent = content.raw
        /\ Len(content.sanitizedContent)
              = Len(content.raw) + 3 * Cardinality(Markup(content.raw))

\* '<&>' has been sanitized twice: both brackets escaped, the '&' as it was
C13_Witness ==
    /\ content.passes = 2
    /\ content.raw = <<"<", "&", ">">>
    /\ content.sanitizedContent = Lt \o <<"&">> \o Gt

\* C14: a 'userLeft' naming an identity is broadcast to a room only when,
\* after the step, no live connection bound to that identity is joined to
\* the room.
C14_LeftOnlyWhenNoneRemain ==
    [][ \A e \in emitted' :
          e.ev = "userLeft" =>
             ~ \E d \in Conns : /\ status'[d] = "live"
                                /\ username'[d] = e.user
                                /\ e.room \in rooms'[d]
      ]_vars

\* C15: when a connection disconnects, the presence set of every room it was
\* not joined to is as it was before, also where another live connection of
\* the same identity is joined to that room.
C15_DisconnectScoped ==
    [][ \A c \in Conns :
          (Live(c) /\ lastOp' = Op("disconnect", c, "closed")) =>
             \A r \in Rooms \ rooms[c], u \in Users :
                Present(r, u) => Present(r, u)'
      ]_vars

RoomEvents(es) == {e \in es : e.ev \in {"message", "userJoined", "userLeft"}}

C17_RateLimitedDropped ==
    [][ (lastOp'.op = "message" /\ lastOp'.res = "rateLimited") =>
          /\ emitted' = {Event("error", lastOp'.sock, "-", "-", RateLimited)}
          /\ pending' = pending
          /\ UNCHANGED <<status, rooms, activeUsers, granted>>
      ]_vars

\* a message of s1 is rejected while s2 sits in the room and a membership
\* query of s1 is unanswered: one notice, to s1, and no call added
C17_Witness ==
    /\ lastOp = Op("message", "s1", "rateLimited")
    /\ Cardinality(emitted) = 1
    /\ Live("s2") /\ "lobby" \in rooms["s2"]
    /\ Len(pending) = 1
    /\ pending[1].kind = "join" /\ pending[1].sock = "s1"

\* C18: a message with an empty or missing content, or without a
\* user.username, is turned down by the validation: it consumes no quota,
\* issues no persistence call, sends nothing to anyone, the sender included,
\* and leaves rooms and presence as they were.
C18_MalformedNoEffect ==
    [][ (lastOp'.op = "message" /\ lastOp'.res = "malformed") =>
          /\ emitted' = {}
          /\ UNCHANGED <<limiter, wellFormed, pending>>
          /\ UNCHANGED <<status, rooms, activeUsers, granted>>
      ]_vars

\* s1 sends a malformed message after an admitted one: its limiter entry
\* stays at one point and the outstanding call is the only one
C18_Witness ==
    /\ lastOp = Op("message", "s1", "malformed")
    /\ limiter["s1"] = 1
    /\ pending = <<[kind |-> "msg", sock |-> "s1", roomId |-> "lobby"]>>
    /\ emitted = {}

\* C19: once a connection's disconnect has been processed the limiter holds
\* no entry under that connection's id.
C19_LimiterEndsWithConnection ==
    \A c \in Conns : status[c] = "closed" => limiter[c] = 0

\* C20: the identity of a connection is set once, by the accepted handshake,
\* to the username of its token, and stays; the membership query names it;
\* an identity enters or leaves a presence set only in a joinRoom, leaveRoom
\* or disconnect step of a connection bound to that very identity; and a
\* 'userJoined' or 'userLeft' names the identity of the connection whose
\* step sent it.
C20_IdentityBinding ==
    [][ /\ username' # username =>
             \A c \in Conns :
                /\ username[c] # "none" => username'[c] = username[c]
                /\ username'[c] # username[c] =>
                      /\ lastOp' = Op("handshake", c, "accepted")
                      /\ username'[c] = Verify(token'[c])
        /\ \A i \in 1..Len(pending') :
             pending'[i].kind = "join" =>
                pending'[i].user = username'[pending'[i].sock]
        /\ activeUsers' # activeUsers =>
             \A r \in Rooms, u \in Users :
                (Present(r, u)' # Present(r, u)) =>
                   /\ lastOp'.op \in {"joinAnswer", "leaveRoom", "disconnect"}
                   /\ username[lastOp'.sock] = u
        /\ \A e \in emitted' :
             e.ev \in {"userJoined", "userLeft"} => e.user = username[lastOp'.sock]
      ]_vars

\* s2, bound to b, is let into the room where s1, bound to a, sits: b is
\* added next to a, and s1 is told that b has joined
C20_Witness ==
    /\ lastOp = Op("joinAnswer", "s2", "member")
    /\ username["s1"] = "a" /\ username["s2"] = "b"
    /\ "lobby" \in DOMAIN activeUsers /\ activeUsers["lobby"] = {"a", "b"}
    /\ Event("userJoined", "s1", "lobby", "b", "-") \in emitted

\* C21: once the disconnect of a connection has been processed, no later
\* step of a handler of that connection changes the presence map or sends a
\* room event; and while no two connections share an identity, an identity
\* present in a room has a live connection joined to the room behind it.
C21_NothingAfterDisconnect ==
    [][ /\ \A c \in Conns :
             (status[c] = "closed" /\ lastOp'.sock = c) =>
                /\ activeUsers' = activeUsers
                /\ RoomEvents(emitted') = {}
        /\ (\A c \in Conns, d \in Conns :
               (c # d /\ username'[c] # "none") => username'[c] # username'[d])
           => \A r \in Rooms, u \in Users :
                 Present(r, u)' =>
                    \E c \in Conns : /\ status'[c] = "live"
                                     /\ username'[c] = u
                                     /\ r \in rooms'[c]
      ]_vars

\* C10: a handler that has issued its outbound call finishes in the end,
\* whether or not the external service answers: either the outstanding calls
\* run out for good, or the oldest outstanding call is taken off time and
\* again (so that every call gets to be the oldest and is taken off).
C10_HandlersFinish ==
    \/ <>[](pending = <<>>)
    \/ []<><<pending # <<>> /\ pending' = Tail(pending)>>_vars

====
